---- MODULE Spec2Model ----
(***************************************************************************)
(* A model of the Yahtzee program of src/src/main.rs: the scoring engine   *)
(* (calculate_scores), the score book (PlayerData), the AI's category     *)
(* choice (ai_choice), the turn loop of main with the human and AI turns,  *)
(* and the highscore file handling of endgame_and_highscores.              *)
(*                                                                         *)
(* Arrays indexed by a category keep the code's 0-based indices (functions *)
(* on 0..12); the five dice are a sequence, so dice[i] here is dice[i-1]   *)
(* in the code.  Strings are sequences of one-character strings.           *)
(***************************************************************************)
EXTENDS Integers, Sequences, FiniteSets, Bags, TLC

VARIABLES
    pc,                 \* where the control is (see the specifications below)
    debug_assertions,   \* the build: cfg(debug_assertions) on (debug) or off (release)
    turn,               \* game_state.turn: [player, n]
    player,             \* game_state.player: PlayerData
    ai,                 \* game_state.ai: PlayerData
    dice,               \* the local dice of player_turn / ai_turn
    chosen,             \* player_turn's hold mask
    rolls_left,         \* player_turn's rerolls remaining
    scores,             \* the preview vector, calculate_scores(&dice)
    choice,             \* ai_turn's local choice; the index passed to add_score in SpecAddScore
    file,               \* highscores.txt: whether it exists, and its lines
    highscores,         \* endgame_and_highscores' Vec<Highscore>
    h,                  \* endgame_and_highscores' new entry
    pos                 \* endgame_and_highscores' insertion index (0-based)

rankVars == <<file, highscores, h, pos>>

vars == <<pc, debug_assertions, turn, player, ai, dice, chosen, rolls_left,
          scores, choice, rankVars>>

----------------------------------------------------------------------------
(* Program constants *)

\* enum Combinations
Aces == 0
Sixes == 5
ThreeOfAKind == 6
FourOfAKind == 7
FullHouse == 8
SmallStraight == 9
LargeStraight == 10
Yahtzee == 11
Chance == 12

NumDice == 5
NumCombinations == 13
LastRound == 14
UpperBonusThreshold == 63
UpperBonus == 35
InitialRolls == 2

Categories == 0..(NumCombinations - 1)
Faces == 1..6
DiceIdx == 1..NumDice

U8(x) == x % 256

----------------------------------------------------------------------------
(* calculate_scores *)

RECURSIVE SumSeq(_)
SumSeq(s) == IF s = <<>> THEN 0 ELSE Head(s) + SumSeq(Tail(s))

\* A variant whose sum stops one die short.
SumDice_DropLast(d) == U8(SumSeq(SubSeq(d, 1, Len(d) - 1)))

\* dice.iter().sum() in u8
SumDice(d) == U8(SumSeq(d))

RECURSIVE SortedInsert(_, _)
SortedInsert(x, s) ==
    IF s = <<>> THEN <<x>>
    ELSE IF x <= Head(s) THEN <<x>> \o s
    ELSE <<Head(s)>> \o SortedInsert(x, Tail(s))

\* dice.sort()
RECURSIVE SortDice(_)
SortDice(d) == IF d = <<>> THEN <<>> ELSE SortedInsert(Head(d), SortDice(Tail(d)))

\* counts[i - 1] = dice.iter().filter(|&n| n == i).count()
CountFace(d, i) == Cardinality({k \in DOMAIN d : d[k] = i})

\* The loop over counts[0..6]: the largest and the second largest count.
RECURSIVE FrequentLoop(_, _, _, _)
FrequentLoop(d, i, most, second) ==
    IF i > 6 THEN [most |-> most, second |-> second]
    ELSE LET count == CountFace(d, i) IN
         IF count > most THEN FrequentLoop(d, i + 1, count, most)
         ELSE IF count > second THEN FrequentLoop(d, i + 1, most, count)
         ELSE FrequentLoop(d, i + 1, most, second)

Frequent(d) == FrequentLoop(d, 1, 0, 0)

\* The straight_len block: d is sorted, i is the code's i + 1.
RECURSIVE StraightLoop(_, _, _, _)
StraightLoop(d, i, max_len, cur_len) ==
    IF i > Len(d) THEN (IF cur_len > max_len THEN cur_len ELSE max_len)
    ELSE IF d[i] = d[i - 1] + 1 THEN StraightLoop(d, i + 1, max_len, cur_len + 1)
    ELSE IF d[i] = d[i - 1] THEN StraightLoop(d, i + 1, max_len, cur_len)
    ELSE StraightLoop(d, i + 1, IF cur_len > max_len THEN cur_len ELSE max_len, 1)

\* A variant in which a repeated face ends the run (the empty else-if branch
\* left out).
RECURSIVE StraightLoop_DupBreaks(_, _, _, _)
StraightLoop_DupBreaks(d, i, max_len, cur_len) ==
    IF i > Len(d) THEN (IF cur_len > max_len THEN cur_len ELSE max_len)
    ELSE IF d[i] = d[i - 1] + 1
         THEN StraightLoop_DupBreaks(d, i + 1, max_len, cur_len + 1)
    ELSE StraightLoop_DupBreaks(d, i + 1,
                                IF cur_len > max_len THEN cur_len ELSE max_len, 1)

straight_len_DupBreaks(d) == StraightLoop_DupBreaks(d, 2, 0, 1)

straight_len(d) == StraightLoop(d, 2, 0, 1)

\* A variant that forgets the pair.
FullHouseCond_NoPair(most, second) == most = 3

FullHouseCond(most, second) == most = 3 /\ second = 2

calculate_scores(d0) ==
    LET d == SortDice(d0)
        f == Frequent(d)
        sl == straight_len(d)
    IN [c \in Categories |->
          IF c <= Sixes THEN U8(CountFace(d, c + 1) * (c + 1))
          ELSE IF c = ThreeOfAKind THEN (IF f.most >= 3 THEN SumDice(d) ELSE 0)
          ELSE IF c = FourOfAKind THEN (IF f.most >= 4 THEN SumDice(d) ELSE 0)
          ELSE IF c = FullHouse THEN (IF FullHouseCond(f.most, f.second) THEN 25 ELSE 0)
          ELSE IF c = SmallStraight THEN (IF sl >= 4 THEN 30 ELSE 0)
          ELSE IF c = LargeStraight THEN (IF sl >= 5 THEN 40 ELSE 0)
          ELSE IF c = Yahtzee THEN (IF f.most >= 5 THEN 50 ELSE 0)
          ELSE SumDice(d)]

----------------------------------------------------------------------------
(* Values the variables hold while a specification does not use them *)

NoFile == [exists |-> FALSE, lines |-> <<>>]
NoEntry == [name |-> <<>>, score |-> 0]
NoChoice == NumCombinations
ZeroDice == [i \in DiceIdx |-> 0]
NoHolds == [i \in DiceIdx |-> FALSE]
ZeroScores == [c \in Categories |-> 0]

\* #[derive(Default)] PlayerData
DefaultPlayerData ==
    [score |-> 0,
     combinations_scores |-> [c \in Categories |-> 0],
     combinations_used |-> [c \in Categories |-> FALSE],
     got_upper_bonus |-> FALSE]

\* impl Default for Turn
DefaultTurn == [player |-> "Human", n |-> 1]

----------------------------------------------------------------------------
(* The scoring engine on every roll: SpecScores *)

InitScores ==
    /\ pc = "scores_in"
    /\ debug_assertions = FALSE
    /\ turn = DefaultTurn
    /\ player = DefaultPlayerData
    /\ ai = DefaultPlayerData
    /\ dice \in [DiceIdx -> Faces]
    /\ chosen = NoHolds
    /\ rolls_left = 0
    /\ scores = ZeroScores
    /\ choice = NoChoice
    /\ file = NoFile
    /\ highscores = <<>>
    /\ h = NoEntry
    /\ pos = 0

CalculateScores ==
    /\ pc = "scores_in"
    /\ scores' = calculate_scores(dice)
    /\ pc' = "scores_out"
    /\ UNCHANGED <<debug_assertions, turn, player, ai, dice, chosen, rolls_left,
                   choice, rankVars>>

NextScores == CalculateScores

SpecScores == InitScores /\ [][NextScores]_vars

----------------------------------------------------------------------------
(* The scoring engine on arbitrary slices: SpecSlices *)

\* The values and lengths of the slices handed to calculate_scores.
SliceValues == {0, 1, 6, 7}
SliceLens == {4, 5, 6}

\* dice.try_into().unwrap() succeeds exactly on a slice of five values.
TryIntoArray(d) == Len(d) = NumDice

InitSlices ==
    /\ pc = "slice_in"
    /\ debug_assertions = FALSE
    /\ turn = DefaultTurn
    /\ player = DefaultPlayerData
    /\ ai = DefaultPlayerData
    /\ dice \in UNION {[1..n -> SliceValues] : n \in SliceLens}
    /\ chosen = NoHolds
    /\ rolls_left = 0
    /\ scores = ZeroScores
    /\ choice = NoChoice
    /\ file = NoFile
    /\ highscores = <<>>
    /\ h = NoEntry
    /\ pos = 0

CalculateScoresOk ==
    /\ pc = "slice_in"
    /\ TryIntoArray(dice)
    /\ scores' = calculate_scores(dice)
    /\ pc' = "slice_out"
    /\ UNCHANGED <<debug_assertions, turn, player, ai, dice, chosen, rolls_left,
                   choice, rankVars>>

CalculateScoresPanic ==
    /\ pc = "slice_in"
    /\ ~TryIntoArray(dice)
    /\ pc' = "panicked"
    /\ UNCHANGED <<debug_assertions, turn, player, ai, dice, chosen, rolls_left,
                   scores, choice, rankVars>>

NextSlices == CalculateScoresOk \/ CalculateScoresPanic

SpecSlices == InitSlices /\ [][NextSlices]_vars

----------------------------------------------------------------------------
(* PlayerData *)

has_used(p, index) == p.combinations_used[index]

RECURSIVE SumScores(_, _, _)
SumScores(cs, from, to) ==
    IF from > to THEN 0 ELSE cs[from] + SumScores(cs, from + 1, to)

\* A variant that sums the whole array (combinations_scores[0..13]).
upper_sum_WholeBook(p) == U8(SumScores(p.combinations_scores, Aces, Chance))

\* combinations_scores[0..6].iter().sum::<u8>() as i32
upper_sum(p) == U8(SumScores(p.combinations_scores, Aces, Sixes))

\* A variant that does not look at got_upper_bonus.
BonusCond_NoFlag(p, index) ==
    /\ index <= Sixes
    /\ upper_sum(p) >= UpperBonusThreshold

\* The condition of the if in add_score, evaluated after the three assignments.
BonusCond(p, index) ==
    /\ ~p.got_upper_bonus
    /\ index <= Sixes
    /\ upper_sum(p) >= UpperBonusThreshold

\* A variant that assigns the score to the total instead of adding it.
add_score_Assign(p, index, score) ==
    LET p1 == [p EXCEPT !.combinations_scores[index] = score,
                        !.combinations_used[index] = TRUE,
                        !.score = score]
    IN IF BonusCond(p1, index)
       THEN [p1 EXCEPT !.score = @ + UpperBonus, !.got_upper_bonus = TRUE]
       ELSE p1

add_score(p, index, score) ==
    LET p1 == [p EXCEPT !.combinations_scores[index] = score,
                        !.combinations_used[index] = TRUE,
                        !.score = @ + score]
    IN IF BonusCond(p1, index)
       THEN [p1 EXCEPT !.score = @ + UpperBonus, !.got_upper_bonus = TRUE]
       ELSE p1

----------------------------------------------------------------------------
(* ai_choice *)

\* max_by_key's comparison of a later element with the best so far: the later
\* one wins unless its key is smaller (Iterator::max_by_key returns the last
\* of several equally maximal elements).
MaxByKeyTakes_FirstWins(sc, i, best) == sc[i] > sc[best]

MaxByKeyTakes(sc, i, best) == sc[i] >= sc[best]

\* The fold of max_by_key over combinations_left, the unused indices in
\* ascending order; NoChoice when the iterator was empty (expect panics).
RECURSIVE MaxByKeyLoop(_, _, _, _)
MaxByKeyLoop(a, sc, i, best) ==
    IF i >= NumCombinations THEN best
    ELSE IF a.combinations_used[i] THEN MaxByKeyLoop(a, sc, i + 1, best)
    ELSE IF best = NoChoice \/ MaxByKeyTakes(sc, i, best)
         THEN MaxByKeyLoop(a, sc, i + 1, i)
         ELSE MaxByKeyLoop(a, sc, i + 1, best)

ai_choice(a, sc) == MaxByKeyLoop(a, sc, 0, NoChoice)

----------------------------------------------------------------------------
(* The game: main's loop, player_turn, ai_turn.  Specification Spec.       *)
(*                                                                         *)
(* pc: "main" at the top of main's loop, "rolling" in player_turn's first  *)
(* loop (rolls_left > 0), "select" in its second loop, "endgame" once main *)
(* has called endgame_and_highscores, "exited" after user_quit's exit,     *)
(* "panicked" after a panic.                                               *)
(* The cursor (current_element, current_row) is moved freely by the arrow  *)
(* keys without any other effect, so the element or row an Enter acts on   *)
(* is the action's parameter.                                              *)

\* The faces rand's gen_range(1..=6) yields in the games explored, and the
\* number of dice the human holds at once in them.
RngFaces == {6}
MaxHeld == 1

NumHeld(ch) == Cardinality({i \in DiceIdx : ch[i]})

\* Turn::next
TurnNext(t) ==
    IF t.player = "Human" THEN [t EXCEPT !.player = "AI"]
    ELSE [player |-> "Human", n |-> t.n + 1]

\* main after a turn returned: turn.next(), the cfg(debug_assertions) block.
TurnAfter(t, debug) ==
    LET t1 == TurnNext(t) IN IF debug THEN [t1 EXCEPT !.n = LastRound] ELSE t1

GameOver(t) == t.n = LastRound

InitGame ==
    /\ pc = "main"
    /\ debug_assertions \in BOOLEAN
    /\ turn = DefaultTurn
    /\ player = DefaultPlayerData
    /\ ai = DefaultPlayerData
    /\ dice = ZeroDice
    /\ chosen = NoHolds
    /\ rolls_left = 0
    /\ scores = ZeroScores
    /\ choice = NoChoice
    /\ file = NoFile
    /\ highscores = <<>>
    /\ h = NoEntry
    /\ pos = 0

\* The locals of a turn are gone when it returns.
TurnReturns ==
    /\ turn' = TurnAfter(turn, debug_assertions)
    /\ pc' = IF GameOver(turn') THEN "endgame" ELSE "main"
    /\ dice' = ZeroDice
    /\ chosen' = NoHolds
    /\ rolls_left' = 0
    /\ scores' = ZeroScores

\* A variant that starts the turn with three rerolls.
PlayerTurnRoll_ThreeRerolls(F) ==
    /\ pc = "main"
    /\ turn.player = "Human"
    /\ \E d \in [DiceIdx -> F] :
          /\ dice' = d
          /\ scores' = calculate_scores(d)
    /\ chosen' = NoHolds
    /\ rolls_left' = InitialRolls + 1
    /\ pc' = "rolling"
    /\ UNCHANGED <<debug_assertions, turn, player, ai, choice, rankVars>>

\* player_turn up to its first getch: the roll of all five dice, the faces
\* drawn from F.
PlayerTurnRoll(F) ==
    /\ pc = "main"
    /\ turn.player = "Human"
    /\ \E d \in [DiceIdx -> F] :
          /\ dice' = d
          /\ scores' = calculate_scores(d)
    /\ chosen' = NoHolds
    /\ rolls_left' = InitialRolls
    /\ pc' = "rolling"
    /\ UNCHANGED <<debug_assertions, turn, player, ai, choice, rankVars>>

PlayerTurnBegin == PlayerTurnRoll(RngFaces)

\* Up / Down / Enter on a die: chosen[current_element] = true, false, negated.
SetChosen(i, b) ==
    /\ pc = "rolling"
    /\ chosen' = [chosen EXCEPT ![i] = b]
    /\ NumHeld(chosen') <= MaxHeld
    /\ UNCHANGED <<pc, debug_assertions, turn, player, ai, dice, rolls_left,
                   scores, choice, rankVars>>

\* A variant that rolls the held dice too.
Rerolled_IgnoresHolds(d, held, new) == new

\* randomize_dice(&mut dice, &to_randomize)
Rerolled(d, held, new) == [i \in DiceIdx |-> IF held[i] THEN d[i] ELSE new[i]]

\* A variant that leaves the previews of the dice before the reroll.
RerollFrom_StalePreviews(F) ==
    /\ pc = "rolling"
    /\ \E new \in [DiceIdx -> F] :
          LET d == Rerolled(dice, chosen, new) IN
          /\ scores' = scores
          /\ rolls_left' = rolls_left - 1
          /\ IF rolls_left' > 0
             THEN dice' = d /\ pc' = "rolling"
             ELSE dice' = SortDice(d) /\ pc' = "select"
    /\ UNCHANGED <<debug_assertions, turn, player, ai, chosen, choice, rankVars>>

\* Enter on "Reroll", the new faces drawn from F; the loop ends, and the dice
\* are sorted, at rolls_left = 0.
RerollFrom(F) ==
    /\ pc = "rolling"
    /\ \E new \in [DiceIdx -> F] :
          LET d == Rerolled(dice, chosen, new) IN
          /\ scores' = calculate_scores(d)
          /\ rolls_left' = rolls_left - 1
          /\ IF rolls_left' > 0
             THEN dice' = d /\ pc' = "rolling"
             ELSE dice' = SortDice(d) /\ pc' = "select"
    /\ UNCHANGED <<debug_assertions, turn, player, ai, chosen, choice, rankVars>>

Reroll == RerollFrom(RngFaces)

\* Enter on "Hold": break, dice.sort().
Hold ==
    /\ pc = "rolling"
    /\ dice' = SortDice(dice)
    /\ pc' = "select"
    /\ UNCHANGED <<debug_assertions, turn, player, ai, chosen, rolls_left, scores,
                   choice, rankVars>>

\* A variant without the has_used check.
Confirm_NoUsedCheck(row) ==
    /\ pc \in {"rolling", "select"}
    /\ player' = add_score(player, row, scores[row])
    /\ TurnReturns
    /\ UNCHANGED <<debug_assertions, ai, choice, rankVars>>

\* Enter on row `row` of the combinations, in either loop.
Confirm(row) ==
    /\ pc \in {"rolling", "select"}
    /\ IF ~has_used(player, row)
       THEN /\ player' = add_score(player, row, scores[row])
            /\ TurnReturns
            /\ UNCHANGED <<debug_assertions, ai, choice, rankVars>>
       ELSE UNCHANGED vars

\* q, then "yes": user_quit ends the process, and its state with it.
Quit ==
    /\ pc \in {"rolling", "select"}
    /\ pc' = "exited"
    /\ turn' = DefaultTurn
    /\ player' = DefaultPlayerData
    /\ ai' = DefaultPlayerData
    /\ dice' = ZeroDice
    /\ chosen' = NoHolds
    /\ rolls_left' = 0
    /\ scores' = ZeroScores
    /\ choice' = NoChoice
    /\ UNCHANGED <<debug_assertions, rankVars>>

\* ai_turn: one roll with faces from F, ai_choice, add_score.  With no unused
\* category left ai_choice's expect panics.
AiTurnRoll(F) ==
    /\ pc = "main"
    /\ turn.player = "AI"
    /\ \E d \in [DiceIdx -> F] :
          LET sc == calculate_scores(d)
              ch == ai_choice(ai, sc)
          IN IF ch # NoChoice
             THEN /\ choice' = ch
                  /\ ai' = add_score(ai, ch, sc[ch])
                  /\ TurnReturns
             ELSE /\ pc' = "panicked"
                  /\ UNCHANGED <<turn, ai, dice, chosen, rolls_left, scores, choice>>
    /\ UNCHANGED <<debug_assertions, player, rankVars>>

AiTurn == AiTurnRoll(RngFaces)

Next ==
    \/ PlayerTurnBegin
    \/ \E i \in DiceIdx, b \in BOOLEAN : SetChosen(i, b)
    \/ Reroll
    \/ Hold
    \/ \E row \in Categories : Confirm(row)
    \/ Quit
    \/ AiTurn

Spec == InitGame /\ [][Next]_vars

----------------------------------------------------------------------------
(* One round with dice that vary: SpecTurn.  The human's turn and the AI's  *)
(* turn after it, in a release build, from the start of round 1 or from a   *)
(* start of round 2; the faces come from TurnFaces.  choice is NoChoice     *)
(* until the AI has moved, which is where the round ends.                   *)

TurnFaces == {5, 6}

\* Round 1 of some game: the human's and the AI's first commits.
TurnRound1 == {[human |-> <<1, 1, 2, 3, 3>>, row |-> Aces, ai |-> <<2, 2, 2, 3, 3>>],
               [human |-> <<1, 1, 2, 3, 3>>, row |-> Chance, ai |-> <<2, 2, 2, 3, 3>>]}

BookAfter(p, d, row) == add_score(p, row, calculate_scores(d)[row])

InitTurn ==
    /\ pc = "main"
    /\ debug_assertions = FALSE
    /\ \/ /\ turn = DefaultTurn
          /\ player = DefaultPlayerData
          /\ ai = DefaultPlayerData
       \/ \E r \in TurnRound1 :
             /\ turn = [player |-> "Human", n |-> 2]
             /\ player = BookAfter(DefaultPlayerData, r.human, r.row)
             /\ ai = BookAfter(DefaultPlayerData, r.ai,
                                ai_choice(DefaultPlayerData, calculate_scores(r.ai)))
    /\ dice = ZeroDice
    /\ chosen = NoHolds
    /\ rolls_left = 0
    /\ scores = ZeroScores
    /\ choice = NoChoice
    /\ file = NoFile
    /\ highscores = <<>>
    /\ h = NoEntry
    /\ pos = 0

TurnBegin == choice = NoChoice /\ PlayerTurnRoll(TurnFaces)

TurnReroll == RerollFrom(TurnFaces)

TurnAi == AiTurnRoll(TurnFaces)

NextTurn ==
    \/ TurnBegin
    \/ \E i \in DiceIdx, b \in BOOLEAN : SetChosen(i, b)
    \/ TurnReroll
    \/ Hold
    \/ \E row \in Categories : Confirm(row)
    \/ Quit
    \/ TurnAi

SpecTurn == InitTurn /\ [][NextTurn]_vars

----------------------------------------------------------------------------
(* The score book of one actor over its own turns (the other actor's turns *)
(* do not touch it): SpecBook.  turn.player says whose book it is.  The    *)
(* human commits any unused category (player_turn's has_used check), the   *)
(* AI the category ai_choice returns, each with the previewed score of a   *)
(* roll.                                                                   *)

\* The rolls whose previews are committed.
BookRolls == {<<4, 4, 4, 4, 4>>, <<5, 5, 5, 5, 5>>, <<6, 6, 6, 6, 6>>}

InitBook ==
    /\ pc = "book"
    /\ debug_assertions = FALSE
    /\ turn \in {[player |-> a, n |-> 1] : a \in {"Human", "AI"}}
    /\ player = DefaultPlayerData
    /\ ai = DefaultPlayerData
    /\ dice = ZeroDice
    /\ chosen = NoHolds
    /\ rolls_left = 0
    /\ scores = ZeroScores
    /\ choice = NoChoice
    /\ file = NoFile
    /\ highscores = <<>>
    /\ h = NoEntry
    /\ pos = 0

\* player_turn's commit: lines 415-416 and 456-457.
BookCommit(sc, index) ==
    /\ pc = "book"
    /\ turn.player = "Human"
    /\ ~has_used(player, index)
    /\ player' = add_score(player, index, sc[index])
    /\ UNCHANGED <<pc, debug_assertions, turn, ai, dice, chosen, rolls_left, scores,
                   choice, rankVars>>

\* ai_turn's commit.
BookCommitAi(sc) ==
    /\ pc = "book"
    /\ turn.player = "AI"
    /\ ai_choice(ai, sc) # NoChoice
    /\ ai' = add_score(ai, ai_choice(ai, sc), sc[ai_choice(ai, sc)])
    /\ UNCHANGED <<pc, debug_assertions, turn, player, dice, chosen, rolls_left,
                   scores, choice, rankVars>>

BookPreviews == {calculate_scores(d) : d \in BookRolls}

\* The AI's rolls: five of a kind of each face.
AiBookRolls == {[i \in DiceIdx |-> f] : f \in Faces}

AiBookPreviews == {calculate_scores(d) : d \in AiBookRolls}

NextBook ==
    \/ \E sc \in BookPreviews, index \in Categories : BookCommit(sc, index)
    \/ \E sc \in AiBookPreviews : BookCommitAi(sc)

SpecBook == InitBook /\ [][NextBook]_vars

----------------------------------------------------------------------------
(* add_score called with any index, used or not: SpecAddScore.  choice is  *)
(* the index of the last call.                                             *)

\* The calls stop once the total would pass this.
MaxTotal == 60

InitAddScore ==
    /\ pc = "add_score"
    /\ debug_assertions = FALSE
    /\ turn = DefaultTurn
    /\ player = DefaultPlayerData
    /\ ai = DefaultPlayerData
    /\ dice = ZeroDice
    /\ chosen = NoHolds
    /\ rolls_left = 0
    /\ scores = ZeroScores
    /\ choice = NoChoice
    /\ file = NoFile
    /\ highscores = <<>>
    /\ h = NoEntry
    /\ pos = 0

AddScoreCall(index, score) ==
    /\ pc = "add_score"
    /\ player.score + score <= MaxTotal
    /\ player' = add_score(player, index, score)
    /\ choice' = index
    /\ UNCHANGED <<pc, debug_assertions, turn, ai, dice, chosen, rolls_left, scores,
                   rankVars>>

NextAddScore ==
    \E index \in Categories :
        AddScoreCall(index, calculate_scores(<<6, 6, 6, 6, 6>>)[index])

SpecAddScore == InitAddScore /\ [][NextAddScore]_vars

----------------------------------------------------------------------------
(* ai_choice on every set of used categories with an unused one, and the   *)
(* previews of a family of rolls: SpecAI.  ai_choice reads only            *)
(* combinations_used of the book.                                          *)

AiRolls ==
    {<<1, 2, 3, 3, 3>>, <<1, 3, 3, 3, 3>>, <<4, 4, 3, 3, 3>>, <<1, 1, 1, 1, 1>>,
     <<3, 2, 1, 4, 3>>, <<3, 2, 1, 4, 5>>, <<6, 6, 6, 6, 6>>, <<2, 2, 5, 6, 6>>,
     <<2, 3, 4, 5, 6>>, <<6, 5, 5, 6, 6>>, <<1, 2, 4, 5, 6>>, <<4, 4, 4, 4, 2>>}

InitAI ==
    /\ pc = "ai_choice"
    /\ debug_assertions = FALSE
    /\ turn = DefaultTurn
    /\ player = DefaultPlayerData
    /\ \E u \in [Categories -> BOOLEAN] :
          /\ u # [c \in Categories |-> TRUE]
          /\ ai = [DefaultPlayerData EXCEPT !.combinations_used = u]
    /\ dice \in AiRolls
    /\ chosen = NoHolds
    /\ rolls_left = 0
    /\ scores = calculate_scores(dice)
    /\ choice = NoChoice
    /\ file = NoFile
    /\ highscores = <<>>
    /\ h = NoEntry
    /\ pos = 0

AiChoice ==
    /\ pc = "ai_choice"
    /\ choice' = ai_choice(ai, scores)
    /\ pc' = "ai_chosen"
    /\ UNCHANGED <<debug_assertions, turn, player, ai, dice, chosen, rolls_left,
                   scores, rankVars>>

NextAI == AiChoice

SpecAI == InitAI /\ [][NextAI]_vars

----------------------------------------------------------------------------
(* The highscore file: Highscore::fmt, write_highscores, get_highscores    *)

DigitChars == <<"0", "1", "2", "3", "4", "5", "6", "7", "8", "9">>
I32Max == 2147483647

RECURSIVE Digits(_)
Digits(n) == IF n < 10 THEN <<DigitChars[n + 1]>>
             ELSE Digits(n \div 10) \o <<DigitChars[(n % 10) + 1]>>

\* i32's Display
I32ToString(n) == IF n < 0 THEN <<"-">> \o Digits(0 - n) ELSE Digits(n)

\* write!(f, "{}: {}", self.name, self.score)
HighscoreFmt(e) == e.name \o <<":", " ">> \o I32ToString(e.score)

\* write_highscores: File::create, then one line per entry.
write_highscores(hs) ==
    [exists |-> TRUE, lines |-> [i \in 1..Len(hs) |-> HighscoreFmt(hs[i])]]

\* str::split(':'): the pieces between the colons (one piece when there is none).
RECURSIVE SplitLoop(_, _, _)
SplitLoop(line, i, piece) ==
    IF i > Len(line) THEN <<piece>>
    ELSE IF line[i] = ":" THEN <<piece>> \o SplitLoop(line, i + 1, <<>>)
    ELSE SplitLoop(line, i + 1, Append(piece, line[i]))

Split(line) == SplitLoop(line, 1, <<>>)

RECURSIVE TrimStart(_)
TrimStart(t) == IF t # <<>> /\ Head(t) = " " THEN TrimStart(Tail(t)) ELSE t

RECURSIVE TrimEnd(_)
TrimEnd(t) == IF t # <<>> /\ t[Len(t)] = " " THEN TrimEnd(SubSeq(t, 1, Len(t) - 1)) ELSE t

\* str::trim
Trim(t) == TrimEnd(TrimStart(t))

DigitValue(c) == CHOOSE k \in 0..9 : DigitChars[k + 1] = c
IsDigit(c) == \E k \in 0..9 : DigitChars[k + 1] = c

\* The digit loop of i32::from_str: checked_mul and checked_add (checked_sub
\* for a negative number) per digit; ok is FALSE on overflow.
RECURSIVE DigitsValue(_, _, _)
DigitsValue(t, acc, neg) ==
    IF t = <<>> THEN [ok |-> TRUE, value |-> acc]
    ELSE LET dgt == DigitValue(Head(t))
             fits == IF neg
                     THEN acc >= 0 - ((I32Max - (IF dgt = 0 THEN 0 ELSE dgt - 1)) \div 10)
                     ELSE acc <= (I32Max - dgt) \div 10
         IN IF fits
            THEN DigitsValue(Tail(t), IF neg THEN 10 * acc - dgt ELSE 10 * acc + dgt, neg)
            ELSE [ok |-> FALSE, value |-> 0]

\* i32::from_str: an optional sign, at least one digit, nothing else, in range.
ParseI32(t) ==
    LET signed == t # <<>> /\ Head(t) \in {"+", "-"}
        ds == IF signed THEN Tail(t) ELSE t
        ok == ds # <<>> /\ \A i \in 1..Len(ds) : IsDigit(ds[i])
    IN IF ok THEN DigitsValue(ds, 0, signed /\ Head(t) = "-")
       ELSE [ok |-> FALSE, value |-> 0]

\* The match of the loop body of get_highscores: the entry a line yields, if any.
ParseLine(line) ==
    LET parts == Split(line) IN
    IF Len(parts) = 2 /\ ParseI32(Trim(parts[2])).ok
    THEN <<[name |-> parts[1], score |-> ParseI32(Trim(parts[2])).value]>>
    ELSE <<>>

RECURSIVE ParseLines(_)
ParseLines(lines) ==
    IF lines = <<>> THEN <<>> ELSE ParseLine(Head(lines)) \o ParseLines(Tail(lines))

\* get_highscores: Ok(Vec::new()) when the file cannot be opened.
get_highscores(f) == IF ~f.exists THEN <<>> ELSE ParseLines(f.lines)

\* A variant with the comparison turned round (h1.score.cmp(&h.score)): the
\* search then treats the list as ascending.
BinarySearchPositions_Reversed(hs, score) ==
    IF \E i \in 1..Len(hs) : hs[i].score = score
    THEN {i - 1 : i \in {j \in 1..Len(hs) : hs[j].score = score}}
    ELSE {Cardinality({i \in 1..Len(hs) : hs[i].score < score})}

\* A variant that looks for the first entry with a strictly smaller score.
BinarySearchPositions_AfterEqual(hs, score) ==
    {Cardinality({i \in 1..Len(hs) : hs[i].score >= score})}

\* highscores.binary_search_by(|h1| h.score.cmp(&h1.score)).unwrap_or_else(|e| e)
\* on a list that is non-increasing by score: Ok(i) for an entry i of equal
\* score (which one of several is unspecified by the standard library, so every
\* one is possible), else Err(i) for the index of the first entry of smaller
\* score.  The values are 0-based indices.
BinarySearchPositions(hs, score) ==
    IF \E i \in 1..Len(hs) : hs[i].score = score
    THEN {i - 1 : i \in {j \in 1..Len(hs) : hs[j].score = score}}
    ELSE {Cardinality({i \in 1..Len(hs) : hs[i].score > score})}

\* Vec::insert(p, e), p 0-based
InsertAt(hs, p, e) == SubSeq(hs, 1, p) \o <<e>> \o SubSeq(hs, p + 1, Len(hs))

----------------------------------------------------------------------------
(* endgame_and_highscores over the runs of the program: SpecRanking.       *)
(* pc: "game_over" when a game has ended and endgame_and_highscores starts,*)
(* "loaded" after get_highscores, "saved" after write_highscores.  A later *)
(* run of the program finds the file the earlier one left.                 *)

\* The names typed and the final scores of the games explored; a run saves
\* only while the list is shorter than MaxEntries.
NameChars == {"a", ":"}
MaxNameLen == 1
MaxEntries == 3
FinalScores == {5, 12, 305}

Names == UNION {[1..n -> NameChars] : n \in 0..MaxNameLen}

InitRanking ==
    /\ pc = "game_over"
    /\ debug_assertions = FALSE
    /\ turn = [player |-> "Human", n |-> LastRound]
    /\ player = DefaultPlayerData
    /\ ai = DefaultPlayerData
    /\ dice = ZeroDice
    /\ chosen = NoHolds
    /\ rolls_left = 0
    /\ scores = ZeroScores
    /\ choice = NoChoice
    /\ file = NoFile
    /\ highscores = <<>>
    /\ h = NoEntry
    /\ pos = 0

gameVars == <<debug_assertions, turn, player, ai, dice, chosen, rolls_left, scores,
              choice>>

\* let mut highscores = get_highscores(HIGHSCORE_PATH)
EndgameLoad ==
    /\ pc \in {"game_over", "saved"}
    /\ highscores' = get_highscores(file)
    /\ h' = NoEntry
    /\ pos' = 0
    /\ pc' = "loaded"
    /\ UNCHANGED <<gameVars, file>>

\* wait_for!'s return on q: nothing is saved.
EndgameAbandon ==
    /\ pc = "loaded"
    /\ pc' = "game_over"
    /\ highscores' = <<>>
    /\ UNCHANGED <<gameVars, file, h, pos>>

\* The name is typed: lines 708-711.  score is game_state.player.score.
EndgameSave(name, score) ==
    /\ pc = "loaded"
    /\ Len(highscores) < MaxEntries
    /\ h' = [name |-> name, score |-> score]
    /\ pos' \in BinarySearchPositions(highscores, score)
    /\ highscores' = InsertAt(highscores, pos', h')
    /\ file' = write_highscores(highscores')
    /\ pc' = "saved"
    /\ UNCHANGED gameVars

NextRanking ==
    \/ EndgameLoad
    \/ EndgameAbandon
    \/ \E name \in Names, score \in FinalScores : EndgameSave(name, score)

SpecRanking == InitRanking /\ [][NextRanking]_vars

----------------------------------------------------------------------------
(* Loading a ranking file written by hand: SpecLoad *)

\* A byte sequence that is not UTF-8, as one character of a line.
InvalidUtf8 == "\\xFF"

\* BufRead::lines yields Err for a line that is not valid UTF-8.
LineIsErr(line) == \E i \in DOMAIN line : line[i] = InvalidUtf8

\* line? in get_highscores: the first Err leaves the function.
get_highscores_is_err(f) == f.exists /\ \E i \in DOMAIN f.lines : LineIsErr(f.lines[i])

LoadLines ==
    { <<"a", ":", " ", "5">>,
      <<"b", ":", "1", "2">>,
      <<"c", ":", "-", "3">>,
      <<"a", "b">>,
      <<"a", ":", "b", ":", "5">>,
      <<"a", ":", "x">>,
      <<>>,
      <<"d", ":", "3", "0", "0", "0", "0", "0", "0", "0", "0", "0">>,
      <<"e", InvalidUtf8, ":", "7">> }

MaxLines == 3

InitLoad ==
    /\ pc = "load_in"
    /\ debug_assertions = FALSE
    /\ turn = [player |-> "Human", n |-> LastRound]
    /\ player = DefaultPlayerData
    /\ ai = DefaultPlayerData
    /\ dice = ZeroDice
    /\ chosen = NoHolds
    /\ rolls_left = 0
    /\ scores = ZeroScores
    /\ choice = NoChoice
    /\ file \in {NoFile} \cup
               {[exists |-> TRUE, lines |-> ls] :
                   ls \in UNION {[1..n -> LoadLines] : n \in 0..MaxLines}}
    /\ highscores = <<>>
    /\ h = NoEntry
    /\ pos = 0

\* get_highscores returned Ok.
LoadOk ==
    /\ pc = "load_in"
    /\ ~get_highscores_is_err(file)
    /\ highscores' = get_highscores(file)
    /\ pc' = "loaded"
    /\ UNCHANGED <<gameVars, file, h, pos>>

\* get_highscores returned Err: unwrap_or_else(|e| panic!(..)).
LoadPanic ==
    /\ pc = "load_in"
    /\ get_highscores_is_err(file)
    /\ pc' = "panicked"
    /\ UNCHANGED <<gameVars, file, highscores, h, pos>>

NextLoad == LoadOk \/ LoadPanic

SpecLoad == InitLoad /\ [][NextLoad]_vars

----------------------------------------------------------------------------
(* Properties *)

NumUsed(p) == Cardinality({c \in Categories : p.combinations_used[c]})
Unused(p) == {c \in Categories : ~p.combinations_used[c]}
AllUsed(p) == \A c \in Categories : p.combinations_used[c]
Range(s) == {s[i] : i \in DOMAIN s}

\* C1 as claimed: ai_choice returns an unused category of maximal preview, and
\* among several of them the one with the lowest index.
C1_AiChoiceLowestIndexOnTies ==
    pc = "ai_chosen" =>
        /\ choice \in Unused(ai)
        /\ \A j \in Unused(ai) : scores[j] <= scores[choice]
        /\ \A j \in Unused(ai) : scores[j] = scores[choice] => choice <= j

\* C1 as amended: ai_choice returns an unused category of maximal preview, and
\* among several of them the one with the HIGHEST index (max_by_key keeps the
\* last maximum).
C1_AiChoiceHighestIndexOnTies ==
    pc = "ai_chosen" =>
        /\ choice \in Unused(ai)
        /\ \A j \in Unused(ai) : scores[j] <= scores[choice]
        /\ \A j \in Unused(ai) : scores[j] = scores[choice] => j <= choice

\* A tie at the maximum between Aces, 3-of-a-kind, 4-of-a-kind and Chance (5
\* each for <<1,1,1,1,1>>, Yahtzee used): Chance is chosen.
C1_Witness ==
    /\ pc = "ai_chosen"
    /\ dice = <<1, 1, 1, 1, 1>>
    /\ Unused(ai) = {Aces, ThreeOfAKind, FourOfAKind, Chance}
    /\ choice = Chance

\* C3 as claimed: add_score for a category that is already used neither replaces
\* its stored score nor adds to the total (choice' is the index of the call).
C3_AddScoreOnUsedIsRejected ==
    [][(pc = "add_score" /\ choice' \in Categories /\ has_used(player, choice'))
         => /\ player'.combinations_scores[choice'] = player.combinations_scores[choice']
            /\ player'.score = player.score]_vars

BonusFlagIffSum(p) == p.got_upper_bonus <=> (upper_sum(p) >= UpperBonusThreshold)

\* What one commit may do to the bonus of book p (q is the book after it).
BonusStep(p, q) ==
    LET idx == CHOOSE c \in Categories : ~p.combinations_used[c] /\ q.combinations_used[c]
        gained == ~p.got_upper_bonus /\ q.got_upper_bonus
    IN q # p =>
         /\ p.got_upper_bonus => q.got_upper_bonus
         /\ q.score - p.score = q.combinations_scores[idx] + (IF gained THEN UpperBonus ELSE 0)
         /\ gained <=> (~p.got_upper_bonus /\ idx <= Sixes
                          /\ upper_sum(q) >= UpperBonusThreshold)
         /\ idx > Sixes => ~gained

\* C7: over commits to distinct categories (while the process lives: an exit
\* ends the books) the bonus flag only goes false -> true,
\* the +35 is added at most once, exactly in the commit of an upper category
\* after which upper_sum() >= 63, never in a lower commit; and in every state
\* the flag is true iff upper_sum() >= 63.
C7_UpperBonusOnce ==
    /\ [](BonusFlagIffSum(player) /\ BonusFlagIffSum(ai))
    /\ [][pc' # "exited" => BonusStep(player, player') /\ BonusStep(ai, ai')]_vars

\* The human's book full, with the bonus, 75 in the upper section.
C7_Witness ==
    /\ pc = "book"
    /\ AllUsed(player)
    /\ player.got_upper_bonus
    /\ upper_sum(player) = 75

UsedTotal(p) ==
    SumScores([c \in Categories |->
                  IF p.combinations_used[c] THEN p.combinations_scores[c] ELSE 0],
              0, NumCombinations - 1)

TotalIsSum(p) ==
    p.score = UsedTotal(p) + (IF p.got_upper_bonus THEN UpperBonus ELSE 0)

UsedStays(p, q) == \A c \in Categories : p.combinations_used[c] => q.combinations_used[c]

\* C8: for both books, a used flag once true stays true, and the total is the sum
\* of the stored scores of the used categories, plus 35 iff the bonus flag is set.
C8_TotalIsSumPlusBonus ==
    /\ [](TotalIsSum(player) /\ TotalIsSum(ai))
    /\ [][pc' # "exited" => UsedStays(player, player') /\ UsedStays(ai, ai')]_vars

\* The AI's book full, with the bonus in its total.
C8_Witness ==
    /\ pc = "book"
    /\ AllUsed(ai)
    /\ ai.got_upper_bonus
    /\ ai.score = UsedTotal(ai) + UpperBonus
    /\ ai.score > UpperBonus

IsFullHouseRoll(d) ==
    \E a \in Faces, b \in Faces :
        a # b /\ CountFace(d, a) = 3 /\ CountFace(d, b) = 2

\* C9: FullHouse is 25 if one face occurs three times and another twice, else 0.
C9_FullHouse ==
    pc = "scores_out" =>
        scores[FullHouse] = (IF IsFullHouseRoll(dice) THEN 25 ELSE 0)

C9_Witness ==
    /\ pc = "scores_out"
    /\ dice = <<4, 4, 3, 3, 3>>
    /\ scores[FullHouse] = 25

HasRun(d, k) == \E a \in 1..(7 - k) : \A j \in 0..(k - 1) : (a + j) \in Range(d)

\* C10: in any order of the dice, SmallStraight is 30 iff the distinct faces
\* contain 4 consecutive values and LargeStraight is 40 iff they contain 5;
\* a repeated face neither extends nor breaks a run.
C10_Straights ==
    pc = "scores_out" =>
        /\ scores[SmallStraight] = (IF HasRun(dice, 4) THEN 30 ELSE 0)
        /\ scores[LargeStraight] = (IF HasRun(dice, 5) THEN 40 ELSE 0)

\* The test small_straight: unsorted, with a repeated 3 inside the run.
C10_Witness ==
    /\ pc = "scores_out"
    /\ dice = <<3, 2, 1, 4, 3>>
    /\ scores[SmallStraight] = 30
    /\ scores[LargeStraight] = 0

\* The reference scoring of the entries other than FullHouse and the
\* straights, from the multiset of faces and with unbounded integers.
MaxCount(d) == CHOOSE m \in 0..Len(d) :
    /\ \E f \in Faces : CountFace(d, f) = m
    /\ \A f \in Faces : CountFace(d, f) <= m

ReferenceEntry(d, c) ==
    IF c <= Sixes THEN CountFace(d, c + 1) * (c + 1)
    ELSE IF c = ThreeOfAKind THEN (IF MaxCount(d) >= 3 THEN SumSeq(d) ELSE 0)
    ELSE IF c = FourOfAKind THEN (IF MaxCount(d) >= 4 THEN SumSeq(d) ELSE 0)
    ELSE IF c = Yahtzee THEN (IF \A i \in DOMAIN d : d[i] = d[1] THEN 50 ELSE 0)
    ELSE SumSeq(d)

ReferenceEntries == (Aces..Sixes) \cup {ThreeOfAKind, FourOfAKind, Yahtzee, Chance}

\* C11: for every roll of five dice in [1,6] each upper entry is count x face,
\* ThreeOfAKind and FourOfAKind are the sum of the dice when some face occurs
\* at least 3 resp. 4 times and 0 otherwise, Yahtzee is 50 iff all five dice
\* agree, Chance is the sum of the dice, and the vector is the one computed
\* for the same dice in sorted order.
C11_ReferenceScoring ==
    pc = "scores_out" =>
        /\ \A c \in ReferenceEntries : scores[c] = ReferenceEntry(dice, c)
        /\ scores = calculate_scores(SortDice(dice))

\* The test four_of_a_kind, with the dice out of order.
C11_Witness ==
    /\ pc = "scores_out"
    /\ dice = <<3, 3, 1, 3, 3>>
    /\ scores[ThreeOfAKind] = 13
    /\ scores[FourOfAKind] = 13
    /\ scores[Yahtzee] = 0
    /\ scores[Chance] = 13
    /\ scores[2] = 12

NonIncreasing(hs) == \A i \in 1..(Len(hs) - 1) : hs[i].score >= hs[i + 1].score

\* C2 as claimed: the new entry is at the first position whose existing score
\* is strictly less than its own, after every existing entry of equal score.
C2_InsertAfterEqualScores ==
    pc = "saved" =>
        /\ highscores[pos + 1] = h
        /\ \A i \in 1..pos : highscores[i].score >= h.score
        /\ \A i \in (pos + 2)..Len(highscores) : highscores[i].score < h.score

\* C2 as amended: the new entry is placed so that the list stays non-increasing;
\* with no existing entry of equal score it is at the first position whose
\* score is strictly less, and with existing entries of equal score it takes the
\* index of one of them, so it comes BEFORE at least one of them.
C2_InsertAtEqualScore ==
    pc = "saved" =>
        /\ highscores[pos + 1] = h
        /\ \A i \in 1..pos : highscores[i].score >= h.score
        /\ \A i \in (pos + 2)..Len(highscores) : highscores[i].score <= h.score
        /\ (\E i \in 1..Len(highscores) : i # pos + 1 /\ highscores[i].score = h.score)
              => (pos + 2 <= Len(highscores) /\ highscores[pos + 2].score = h.score)

\* A second entry of score 12 was put in front of the first one.
C2_Witness ==
    /\ pc = "saved"
    /\ Len(highscores) = 3
    /\ pos = 1
    /\ h = [name |-> <<>>, score |-> 12]
    /\ highscores[3] = [name |-> <<"a">>, score |-> 12]
    /\ highscores[1].score = 305

BagOf(hs) == [e \in Range(hs) |-> Cardinality({i \in DOMAIN hs : hs[i] = e})]

\* C4: what a run loads is, as a multiset of (name, score), what the run before
\* it persisted.
C4_LoadOfPersistIsSameMultiset ==
    [][(pc = "saved" /\ pc' = "loaded") => BagOf(highscores') = BagOf(highscores)]_vars

\* C5: from an absent file, after any number of load / insert / persist cycles
\* the stored sequence is non-increasing by score: the list persisted, the file's
\* records, and the list the next run loads.
C5_StoredNonIncreasing ==
    /\ NonIncreasing(highscores)
    /\ NonIncreasing(get_highscores(file))
    /\ (pc = "saved" => file = write_highscores(highscores))

\* Three cycles with the scores in increasing order 5, 12, 305.
C5_Witness ==
    /\ pc = "saved"
    /\ Len(file.lines) = 3
    /\ h.score = 305
    /\ pos = 0
    /\ highscores[2].score = 12
    /\ highscores[3].score = 5
    /\ get_highscores(file) = highscores

\* What one step of the game may do to the turn, as C6 has it.
TurnCycleStep ==
    /\ turn' # turn =>
          \/ /\ turn.player = "Human"
             /\ turn' = [player |-> "AI", n |-> turn.n]
             /\ NumUsed(player') = NumUsed(player) + 1
          \/ /\ turn.player = "AI"
             /\ turn' = [player |-> "Human", n |-> turn.n + 1]
             /\ NumUsed(ai') = NumUsed(ai) + 1
    /\ (player' # player \/ ai' # ai) => turn' # turn
    /\ (pc' = "endgame") <=> (turn'.n = LastRound)
    /\ pc' = "endgame" =>
          /\ turn' = [player |-> "Human", n |-> LastRound]
          /\ NumUsed(ai') = NumCombinations
          /\ NumUsed(player') = NumCombinations

\* C6: the turn cycle starts at Human(1); its only transitions are Human(n) ->
\* AI(n) on the human's commit and AI(n) -> Human(n+1) on the AI's commit; the
\* loop is terminal exactly when the round counter is 14, right after the AI's
\* 13th commit and never after fewer turns.
C6_TurnCycle ==
    /\ (pc = "main" /\ turn = DefaultTurn)
    /\ [][pc' # "exited" => TurnCycleStep]_vars

\* The same for the release build alone (cfg(debug_assertions) off).
C6_TurnCycleRelease ==
    /\ (pc = "main" /\ turn = DefaultTurn)
    /\ [][(pc' # "exited" /\ ~debug_assertions) => TurnCycleStep]_vars

UsedCounts ==
    /\ turn.player = "Human" =>
           NumUsed(player) = turn.n - 1 /\ NumUsed(ai) = turn.n - 1
    /\ turn.player = "AI" =>
           NumUsed(player) = turn.n /\ NumUsed(ai) = turn.n - 1
    /\ pc # "panicked"
    /\ pc \in {"rolling", "select"} => Unused(player) # {}
    /\ pc = "endgame" => AllUsed(player) /\ AllUsed(ai)

\* C12: in every reachable state of the game, at Human(n) both score books
\* have n-1 used categories and at AI(n) the human's has n and the AI's n-1;
\* ai_choice never runs out of unused categories, the human always has an
\* unused category while a turn is open, and when the loop ends both books
\* have all 13 categories used.
C12_UsedCounts == UsedCounts

\* The same statement for the release build only.
C12_UsedCountsRelease == ~debug_assertions => UsedCounts

ValidRoll(d) == Len(d) = NumDice /\ \A i \in DOMAIN d : d[i] \in Faces

\* C13: the scoring engine fails (no score vector) whenever its input is not
\* exactly 5 values or contains a value outside [1,6].
C13_InvalidInputFails ==
    /\ pc = "slice_out" => ValidRoll(dice)
    /\ pc = "panicked" => ~ValidRoll(dice)

\* What the code does: it fails exactly on a slice whose length is not 5.
C13_WrongLengthFails ==
    /\ pc = "slice_out" => Len(dice) = NumDice
    /\ pc = "panicked" => Len(dice) # NumDice

\* A line of the form name:integer: one colon, no undecodable byte, and after
\* the colon an i32 in decimal, possibly surrounded by blanks.
ColonAt(line) == {k \in DOMAIN line : line[k] = ":"}

WellFormed(line) ==
    /\ ~LineIsErr(line)
    /\ Cardinality(ColonAt(line)) = 1
    /\ LET k == CHOOSE j \in ColonAt(line) : TRUE
       IN ParseI32(Trim(SubSeq(line, k + 1, Len(line)))).ok

EntryOf(line) ==
    LET k == CHOOSE j \in ColonAt(line) : TRUE
    IN [name |-> SubSeq(line, 1, k - 1),
        score |-> ParseI32(Trim(SubSeq(line, k + 1, Len(line)))).value]

RECURSIVE WellFormedEntries(_)
WellFormedEntries(lines) ==
    IF lines = <<>> THEN <<>>
    ELSE (IF WellFormed(Head(lines)) THEN <<EntryOf(Head(lines))>> ELSE <<>>)
         \o WellFormedEntries(Tail(lines))

LoadedAsExpected ==
    /\ pc = "loaded"
    /\ highscores = (IF file.exists THEN WellFormedEntries(file.lines) ELSE <<>>)

\* C14: loading the ranking file never aborts because of a bad record: every
\* line not of the form name:integer is skipped, the well-formed lines are
\* kept in file order, and an absent file yields the empty list.
C14_LoadSkipsBadRecords == pc # "load_in" => LoadedAsExpected

\* What holds: a file whose lines are all valid UTF-8 is loaded that way.
C14_TextFileLoad ==
    (pc # "load_in" /\ \A i \in DOMAIN file.lines : ~LineIsErr(file.lines[i]))
        => LoadedAsExpected

C14_TextFileWitness ==
    /\ pc = "loaded"
    /\ file.exists
    /\ file.lines = << <<"a", ":", "x">>, <<"b", ":", "1", "2">>, <<"a", ":", " ", "5">> >>
    /\ highscores = << [name |-> <<"b">>, score |-> 12], [name |-> <<"a">>, score |-> 5] >>

InTurn(st) == st \in {"rolling", "select"}

RollsLeftInRange ==
    /\ InTurn(pc) => rolls_left \in 0..InitialRolls
    /\ pc = "rolling" => rolls_left > 0

TurnStartStep ==
    (pc = "main" /\ pc' = "rolling") =>
        rolls_left' = InitialRolls /\ chosen' = NoHolds

RollsLeftStep ==
    (InTurn(pc) /\ InTurn(pc') /\ rolls_left' # rolls_left) =>
        /\ pc = "rolling"
        /\ rolls_left > 0
        /\ rolls_left' = rolls_left - 1

\* Hold: the first loop is left with rerolls remaining.
HoldStep ==
    (pc = "rolling" /\ pc' = "select" /\ rolls_left' = rolls_left) =>
        /\ scores' = scores
        /\ dice' = SortDice(dice)

SelectStep ==
    pc = "select" =>
        /\ pc' # "rolling"
        /\ pc' = "select" =>
              dice' = dice /\ scores' = scores /\ rolls_left' = rolls_left

\* C15: every human turn starts with rolls_left = 2 and no die held;
\* rolls_left changes only by a reroll, which needs rolls_left > 0 and takes
\* exactly 1 off; it stays in 0..2; and once it is 0, or the human chose Hold,
\* the dice faces and the previews stay as they are for the rest of the turn.
C15_RerollBudget ==
    /\ []RollsLeftInRange
    /\ [][TurnStartStep /\ RollsLeftStep /\ HoldStep /\ SelectStep]_vars

\* Both rerolls spent with a die held, in round 2.
C15_Witness ==
    /\ pc = "select"
    /\ rolls_left = 0
    /\ chosen # NoHolds
    /\ turn = [player |-> "Human", n |-> 2]
    /\ dice = <<5, 5, 6, 6, 6>>

RerollStep == pc = "rolling" /\ InTurn(pc') /\ rolls_left' = rolls_left - 1

HeldCount(d, held, f) == Cardinality({i \in DiceIdx : held[i] /\ d[i] = f})

Committed(row) ==
    /\ player' = add_score(player, row, scores[row])
    /\ has_used(player', row)
    /\ ai' = ai
    /\ turn' = TurnAfter(turn, debug_assertions)
    /\ turn'.player = "AI"
    /\ ~InTurn(pc')

\* C17: in a human turn, Enter on a used category changes nothing (books,
\* dice, hold mask, rolls_left, turn), and the human can go on to confirm
\* another category; Enter on an unused category commits it and ends the turn.
C17_ConfirmUsedChangesNothing ==
    InTurn(pc) =>
        \A row \in Categories :
            /\ ENABLED Confirm(row)
            /\ IF has_used(player, row)
               THEN /\ ~ENABLED (Confirm(row) /\ vars' # vars)
                    /\ \E other \in Categories : ENABLED (Confirm(other) /\ Committed(other))
               ELSE ~ENABLED (Confirm(row) /\ ~Committed(row))

\* The selection phase of round 2 with Chance used and Aces not.
C17_Witness ==
    /\ pc = "select"
    /\ turn = [player |-> "Human", n |-> 2]
    /\ has_used(player, Chance)
    /\ ~has_used(player, Aces)
    /\ ENABLED (Confirm(Chance) /\ vars' = vars)
    /\ ENABLED (Confirm(Aces) /\ Committed(Aces))

PreviewIsCurrent == InTurn(pc) => scores = calculate_scores(dice)

HumanCommitStep ==
    (InTurn(pc) /\ pc' \in {"main", "endgame"}) =>
        \E row \in Unused(player) :
            /\ player' = add_score(player, row, calculate_scores(dice)[row])
            /\ player'.combinations_scores[row] = calculate_scores(dice)[row]

\* The previews of all rolls of five dice.
AllPreviews == {calculate_scores(d) : d \in [DiceIdx -> Faces]}

AiCommitStep ==
    (pc = "main" /\ turn.player = "AI" /\ ai' # ai) =>
        \E sc \in AllPreviews :
            /\ choice' = ai_choice(ai, sc)
            /\ ai' = add_score(ai, choice', sc[choice'])
            /\ ai'.combinations_scores[choice'] = sc[choice']

\* C18: in every state of a human turn the previews are calculate_scores of
\* the current dice (after the initial roll, after each reroll, after hold
\* toggles, and after the sort for the selection phase), so the score the
\* human commits for a category is that of the dice shown at commit time; the
\* AI likewise commits calculate_scores of one roll at the index it chose.
C18_PreviewIsScoreOfDice ==
    /\ []PreviewIsCurrent
    /\ [][HumanCommitStep /\ AiCommitStep]_vars

\* Round 2 after the human committed a full house of 5s and 6s.
C18_Witness ==
    /\ pc = "main"
    /\ turn = [player |-> "AI", n |-> 2]
    /\ has_used(player, FullHouse)
    /\ player.combinations_scores[FullHouse] = 25

\* The u8 products and sums of calculate_scores before they are stored.
RollFitsU8(d) ==
    /\ \A f \in Faces : CountFace(d, f) * f <= 30
    /\ SumSeq(d) <= 30
    /\ \A c \in Categories : calculate_scores(d)[c] <= 50

RollsFitU8 == \A d \in [DiceIdx -> Faces] : RollFitsU8(d)

BookFitsU8(p) ==
    /\ \A c \in Categories : p.combinations_scores[c] <= 50
    /\ SumScores(p.combinations_scores, Aces, Sixes) <= 105
    /\ upper_sum(p) = SumScores(p.combinations_scores, Aces, Sixes)
    /\ upper_sum(p) <= 105

\* C19: 8-bit arithmetic never overflows: for every roll in [1,6]^5 count x
\* face and the dice sum are at most 30 and every entry of calculate_scores is
\* at most 50, and in every reachable score book the sum of the six upper
\* scores that upper_sum() computes in u8 is at most 105, below 256.
C19_NoU8Overflow ==
    /\ RollsFitU8
    /\ BookFitsU8(player)
    /\ BookFitsU8(ai)

\* The AI's book complete with five of a kind in every upper category.
C19_Witness ==
    /\ pc = "book"
    /\ AllUsed(ai)
    /\ upper_sum(ai) = 105
    /\ ai.combinations_scores[Yahtzee] = 50

====
